---- MODULE Spec2Model ----
(***************************************************************************)
(* The POST handler of app/api/prompt-workflow/route.ts: it asks the       *)
(* generator (an LLM) for a workflow, parses the reply and normalizes the  *)
(* nodes and edges before answering.                                       *)
(*                                                                         *)
(* JSON values are records tagged by their JavaScript type.  Strings are   *)
(* sequences of one-character strings, so that startsWith, split, parseInt *)
(* and template literals are computed character by character.              *)
(***************************************************************************)
EXTENDS Integers, Sequences, FiniteSets, TLC

\* ------------------------------------------------------------------------
\* Bounds of the explored inputs
\* ------------------------------------------------------------------------
MaxNodes == 2
MaxEdges == 2

\* ------------------------------------------------------------------------
\* JavaScript values
\* ------------------------------------------------------------------------
Undef == [t |-> "undefined"]

Str(s) == [t |-> "string", s |-> s]

Num(n) == [t |-> "number", n |-> n]

IsStr(v) == v.t = "string"

\* JavaScript truthiness: undefined, "" and 0 are falsy, objects are truthy.
Truthy(v) ==
  CASE v.t = "undefined" -> FALSE
    [] v.t = "string" -> v.s # <<>>
    [] v.t = "number" -> v.n # 0
    [] OTHER -> TRUE

\* a || b
Or(a, b) == IF Truthy(a) THEN a ELSE b

\* ------------------------------------------------------------------------
\* Strings
\* ------------------------------------------------------------------------
NodePrefix == <<"n", "o", "d", "e", "_">>

EdgePrefix == <<"e", "d", "g", "e", "-">>

\* String.prototype.startsWith
StartsWith(s, p) == Len(s) >= Len(p) /\ SubSeq(s, 1, Len(p)) = p

\* The position of the first occurrence of character c in s, or 0.
IndexOf(s, c) ==
  IF \E i \in 1..Len(s) : s[i] = c
  THEN CHOOSE i \in 1..Len(s) : s[i] = c /\ \A j \in 1..(i - 1) : s[j] # c
  ELSE 0

\* String.prototype.split on a one-character separator.
RECURSIVE Split(_, _)
Split(s, c) ==
  LET k == IndexOf(s, c)
  IN IF k = 0 THEN <<s>>
     ELSE <<SubSeq(s, 1, k - 1)>> \o Split(SubSeq(s, k + 1, Len(s)), c)

LowerCase == <<"a", "b", "c", "d", "e", "f", "g", "h", "i", "j", "k", "l", "m",
               "n", "o", "p", "q", "r", "s", "t", "u", "v", "w", "x", "y", "z">>

UpperCase == <<"A", "B", "C", "D", "E", "F", "G", "H", "I", "J", "K", "L", "M",
               "N", "O", "P", "Q", "R", "S", "T", "U", "V", "W", "X", "Y", "Z">>

\* String.prototype.toUpperCase
ToUpperCase(s) ==
  [i \in 1..Len(s) |->
     IF \E k \in 1..26 : LowerCase[k] = s[i]
     THEN UpperCase[CHOOSE k \in 1..26 : LowerCase[k] = s[i]]
     ELSE s[i]]

\* type.charAt(0).toUpperCase() + type.slice(1)
Capitalize(s) ==
  IF s = <<>> THEN <<>>
  ELSE ToUpperCase(SubSeq(s, 1, 1)) \o SubSeq(s, 2, Len(s))

\* ------------------------------------------------------------------------
\* Numbers of the id counter.  A JavaScript number is an IEEE-754 double:
\* the naturals up to 2^53 are exact, and 2^53 + 1 rounds back to 2^53.
\* A counter value is its sequence of decimal digits, most significant
\* first, without leading zeros; the inputs keep every value within 2^53.
\* ------------------------------------------------------------------------
DigitChars == <<"0", "1", "2", "3", "4", "5", "6", "7", "8", "9">>

IsDigit(c) == \E d \in 1..10 : DigitChars[d] = c

DigitOf(c) == (CHOOSE d \in 1..10 : DigitChars[d] = c) - 1

\* 2^53 = 9007199254740992
TwoPow53 == <<9, 0, 0, 7, 1, 9, 9, 2, 5, 4, 7, 4, 0, 9, 9, 2>>

\* A counter that starts at 0
CounterStartZero == <<0>>

\* let currentNodeIdCounter = 1
CounterStart == <<1>>

RECURSIVE StripZeros(_)
StripZeros(ds) ==
  IF Len(ds) > 1 /\ ds[1] = 0 THEN StripZeros(Tail(ds)) ELSE ds

\* a < b on digit sequences without leading zeros
NumLess(a, b) ==
  \/ Len(a) < Len(b)
  \/ /\ Len(a) = Len(b)
     /\ \E i \in 1..Len(a) :
          /\ a[i] < b[i]
          /\ \A j \in 1..(i - 1) : a[j] = b[j]

\* Math.max
NumMax(a, b) == IF NumLess(a, b) THEN b ELSE a

RECURSIVE DecimalSucc(_)
DecimalSucc(ds) ==
  IF ds = <<>> THEN <<1>>
  ELSE IF ds[Len(ds)] < 9
       THEN SubSeq(ds, 1, Len(ds) - 1) \o <<ds[Len(ds)] + 1>>
       ELSE DecimalSucc(SubSeq(ds, 1, Len(ds) - 1)) \o <<0>>

\* n + 1 in double precision
PlusOne(ds) == IF ds = TwoPow53 THEN TwoPow53 ELSE DecimalSucc(ds)

\* String(n), as a template literal formats the counter
NumToString(ds) == [i \in 1..Len(ds) |-> DigitChars[ds[i] + 1]]

\* The longest prefix of s made of digits
RECURSIVE DigitPrefix(_)
DigitPrefix(s) ==
  IF s # <<>> /\ IsDigit(s[1]) THEN <<s[1]>> \o DigitPrefix(Tail(s)) ELSE <<>>

\* parseInt(s, 10): an optional sign, then the longest run of digits; NaN
\* when there is no digit.  kind is "nan", "neg" (a value below zero) or
\* "nat" with the digits of the value.
ParseInt(s) ==
  LET signed == s # <<>> /\ s[1] \in {"+", "-"}
      body == IF signed THEN Tail(s) ELSE s
      run == DigitPrefix(body)
      value == StripZeros([i \in 1..Len(run) |-> DigitOf(run[i])])
  IN IF run = <<>> THEN [kind |-> "nan"]
     ELSE IF signed /\ s[1] = "-" /\ value # <<0>> THEN [kind |-> "neg"]
     ELSE [kind |-> "nat", digits |-> value]

\* ------------------------------------------------------------------------
\* Objects of the generator's JSON
\* ------------------------------------------------------------------------
Null == [t |-> "null"]

\* obj?.field
Get(obj, field) == IF obj.t = "object" THEN obj[field] ELSE Undef

Position(x, y) == [t |-> "object", x |-> x, y |-> y]

\* node.data: the three fields the handler ensures, the alias `name` it
\* reads, and `instructions` standing for every other property.
Data(nodeType, nodeName, name, label, instructions) ==
  [t |-> "object", nodeType |-> nodeType, nodeName |-> nodeName,
   name |-> name, label |-> label, instructions |-> instructions]

EmptyObject == Data(Undef, Undef, Undef, Undef, Undef)

Node(id, type, position, data) ==
  [id |-> id, type |-> type, position |-> position, data |-> data]

\* An edge of the generator: `animated` stands for every property the
\* handler does not copy.
Edge(id, source, target, label, sourceHandle, targetHandle, animated) ==
  [t |-> "object", id |-> id, source |-> source, target |-> target,
   label |-> label, sourceHandle |-> sourceHandle,
   targetHandle |-> targetHandle, animated |-> animated]

\* ------------------------------------------------------------------------
\* nodeIdMap: Map<string, string>
\* ------------------------------------------------------------------------
EmptyMap == [k \in {} |-> Undef]

MapSet(m, k, v) == [x \in DOMAIN m \cup {k} |-> IF x = k THEN v ELSE m[x]]

MapGet(m, k) == IF k \in DOMAIN m THEN m[k] ELSE Undef

\* ------------------------------------------------------------------------
\* Step 4, the callback of workflowData.nodes.map (route.ts 114-152)
\* ------------------------------------------------------------------------
\* The callback throws a TypeError on a node that is null (node.id) and on
\* a truthy id that is no string (originalId.startsWith is no function).
IdThrows(originalId) == Truthy(originalId) /\ ~IsStr(originalId)

\* !originalId || !originalId.startsWith('node_')
NeedsNewId(originalId) ==
  \/ ~Truthy(originalId)
  \/ ~StartsWith(originalId.s, NodePrefix)

\* `node_${currentNodeIdCounter++}`, or the id itself
FinalId(counter, originalId) ==
  IF NeedsNewId(originalId)
  THEN Str(NodePrefix \o NumToString(counter))
  ELSE originalId

\* The counter after the node: incremented when an id is generated, raised
\* above the numeric suffix of a retained id otherwise.
NextCounter(counter, originalId) ==
  IF NeedsNewId(originalId)
  THEN PlusOne(counter)
  ELSE LET idNum == ParseInt(Split(originalId.s, "_")[2])
       IN IF idNum.kind = "nat"
          THEN NumMax(counter, PlusOne(idNum.digits))
          ELSE counter

\* if (originalId) nodeIdMap.set(originalId, finalId)
NextMap(map, counter, originalId) ==
  IF NeedsNewId(originalId) /\ Truthy(originalId)
  THEN MapSet(map, originalId, FinalId(counter, originalId))
  ELSE map

\* Ensure position
EnsurePosition(node, index) ==
  IF \/ ~Truthy(node.position)
     \/ Get(node.position, "x").t # "number"
     \/ Get(node.position, "y").t # "number"
  THEN Position(Num(250 + index * 300), Num(250))
  ELSE node.position

\* EnsureType that prefers data.nodeType to the node's own type
EnsureTypeFromData(node) ==
  Or(Or(Get(node.data, "nodeType"), node.type), Str(<<"a", "g", "e", "n", "t">>))

\* node.type || node.data?.nodeType || 'agent'
EnsureType(node) ==
  Or(Or(node.type, Get(node.data, "nodeType")), Str(<<"a", "g", "e", "n", "t">>))

\* node.type.charAt is no function unless the type is a string
TypeThrows(node) == ~IsStr(EnsureType(node))

DefaultNodeName(type) == Str(Capitalize(type.s))

\* EnsureData that rebuilds data from nodeType and nodeName alone
EnsureDataRebuilt(node) ==
  LET type == EnsureType(node)
      d(f) == Get(node.data, f)
  IN [EmptyObject EXCEPT
        !.nodeType = Or(d("nodeType"), type),
        !.nodeName = Or(Or(d("nodeName"), d("name")), DefaultNodeName(type))]

\* { ...(node.data || {}), nodeType, nodeName, label }
EnsureData(node) ==
  LET type == EnsureType(node)
      old == IF Truthy(node.data) THEN node.data ELSE EmptyObject
      d(f) == Get(node.data, f)
  IN [old EXCEPT
        !.nodeType = Or(d("nodeType"), type),
        !.nodeName = Or(Or(d("nodeName"), d("name")), DefaultNodeName(type)),
        !.label = Or(Or(Or(d("label"), d("nodeName")), d("name")),
                     DefaultNodeName(type))]

\* The whole callback on one node: whether it throws, the counter and the
\* map after it, the node as mutated in place (its id is left alone) and
\* the node returned, { ...node, id: finalId }.
NormalizeNode(counter, map, node, index) ==
  IF node = Null \/ IdThrows(node.id) \/ TypeThrows(node)
  THEN [threw |-> TRUE]
  ELSE LET mutated == [node EXCEPT !.position = EnsurePosition(node, index),
                                   !.type = EnsureType(node),
                                   !.data = EnsureData(node)]
       IN [threw |-> FALSE,
           counter |-> NextCounter(counter, node.id),
           map |-> NextMap(map, counter, node.id),
           mutated |-> mutated,
           out |-> [mutated EXCEPT !.id = FinalId(counter, node.id)]]

\* ------------------------------------------------------------------------
\* Step 4, the callback of workflowData.edges.map (route.ts 158-187)
\* ------------------------------------------------------------------------
\* EdgeThrows of a callback that rejects an edge without source or target
EdgeThrowsOnMissing(edge) ==
  IF edge = Null THEN TRUE
  ELSE ~(Truthy(edge.source) /\ Truthy(edge.target))

\* edge.source of a null edge throws a TypeError.
EdgeThrows(edge) == edge = Null

\* MappedEndpoint without the lookup in nodeIdMap
MappedEndpointUnmapped(map, endpoint) == endpoint

\* MappedEndpoint without the fallback to the endpoint itself
MappedEndpointNoFallback(map, endpoint) == MapGet(map, endpoint)

\* nodeIdMap.get(edge.source) || edge.source
MappedEndpoint(map, endpoint) == Or(MapGet(map, endpoint), endpoint)

\* ...(edge.label && { label: edge.label })
Optional(v) == IF Truthy(v) THEN v ELSE Undef

\* MapEdge without the validation of the target
MapEdgeUnchecked(map, valid, edge) ==
  IF ~Truthy(edge.source) \/ ~Truthy(edge.target) THEN Null
  ELSE LET mappedSource == MappedEndpoint(map, edge.source)
           mappedTarget == MappedEndpoint(map, edge.target)
       IN IF mappedSource \notin valid THEN Null
          ELSE Edge(Or(edge.id, Str(EdgePrefix \o mappedSource.s \o <<"-">>
                                      \o mappedTarget.s)),
                    mappedSource, mappedTarget,
                    Optional(edge.label), Optional(edge.sourceHandle),
                    Optional(edge.targetHandle), Undef)

MapEdge(map, valid, edge) ==
  IF ~Truthy(edge.source) \/ ~Truthy(edge.target) THEN Null
  ELSE LET mappedSource == MappedEndpoint(map, edge.source)
           mappedTarget == MappedEndpoint(map, edge.target)
       IN IF mappedSource \notin valid THEN Null
          ELSE IF mappedTarget \notin valid THEN Null
          ELSE Edge(Or(edge.id, Str(EdgePrefix \o mappedSource.s \o <<"-">>
                                      \o mappedTarget.s)),
                    mappedSource, mappedTarget,
                    Optional(edge.label), Optional(edge.sourceHandle),
                    Optional(edge.targetHandle), Undef)

\* .filter(edge => edge !== null)
RECURSIVE FilterNull(_)
FilterNull(seq) ==
  IF seq = <<>> THEN <<>>
  ELSE IF Head(seq) = Null THEN FilterNull(Tail(seq))
       ELSE <<Head(seq)>> \o FilterNull(Tail(seq))

\* new Set(processedNodes.map(n => n.id))
ValidNodeIds(nodes) == {nodes[i].id : i \in 1..Len(nodes)}

\* workflowData.nodes.map as a whole: the counter, the map and the nodes
\* returned once the callback has run on the first k nodes.
RECURSIVE MapNodes(_, _)
MapNodes(nodes, k) ==
  IF k = 0
  THEN [threw |-> FALSE, counter |-> CounterStart, map |-> EmptyMap, out |-> <<>>]
  ELSE LET prev == MapNodes(nodes, k - 1)
       IN IF prev.threw THEN prev
          ELSE LET r == NormalizeNode(prev.counter, prev.map, nodes[k], k - 1)
               IN IF r.threw THEN [threw |-> TRUE]
                  ELSE [threw |-> FALSE, counter |-> r.counter, map |-> r.map,
                        out |-> Append(prev.out, r.out)]

\* Step 4 as a whole, from the parsed workflow to the body of the answer.
NormalizeWorkflow(w) ==
  LET ns == MapNodes(w.nodes, Len(w.nodes))
  IN IF ns.threw \/ \E k \in 1..Len(w.edges) : EdgeThrows(w.edges[k])
     THEN [threw |-> TRUE]
     ELSE [threw |-> FALSE,
           nodes |-> ns.out,
           edges |-> FilterNull([k \in 1..Len(w.edges) |->
                                   MapEdge(ns.map, ValidNodeIds(ns.out),
                                           w.edges[k])])]

\* ------------------------------------------------------------------------
\* The inputs explored: requests and replies of the generator
\* ------------------------------------------------------------------------
S_a == <<"a">>

S_b == <<"b">>

S_node_1 == <<"n", "o", "d", "e", "_", "1">>

S_node_2 == <<"n", "o", "d", "e", "_", "2">>

S_node_x == <<"n", "o", "d", "e", "_", "x">>

S_node_big == NodePrefix \o NumToString(TwoPow53)

S_start == <<"s", "t", "a", "r", "t">>

S_end == <<"e", "n", "d">>

S_agent == <<"a", "g", "e", "n", "t">>

S_Begin == <<"B", "e", "g", "i", "n">>

S_R == <<"R">>

S_go == <<"g", "o">>

S_e1 == <<"e", "1">>

S_yes == <<"y", "e", "s">>

\* Nodes as a generator writes them, one per shape of id. The start node
\* supplies every field of data, with a name and a label of its own.
StartNode ==
  Node(Str(S_a), Str(S_start), Position(Num(100), Num(200)),
       Data(Str(S_start), Str(S_Begin), Undef, Str(S_R), Str(S_go)))

EndNode == Node(Str(S_b), Str(S_end), Undef,
                Data(Str(S_end), Undef, Undef, Undef, Undef))

AgentNode ==
  Node(Str(S_node_1), Str(S_agent), Position(Num(350), Num(200)),
       Data(Str(S_end), Undef, Str(S_R), Undef, Str(S_go)))

BareNode == Node(Str(S_node_2), Undef, Undef, Undef)

NoIdNode == Node(Undef, Undef, Position(Str(S_a), Num(200)),
                 Data(Str(S_end), Undef, Undef, Undef, Undef))

CoreNodes == {StartNode, EndNode, AgentNode, BareNode, NoIdNode}

\* Nodes at the edge of the rules: the empty id, a number as id or as type,
\* a suffix that is no number, the largest exact suffix, and null.
OddNodes ==
  {Node(Str(<<>>), Str(S_start), Undef, Undef),
   Node(Num(7), Str(S_agent), Undef, Undef),
   Node(Str(S_node_x), Num(7), Undef, Undef),
   Node(Str(S_node_x), Str(S_end), Undef, Undef),
   Node(Str(S_node_big), Undef, Undef, Undef),
   Null}

Endpoints == {Undef, Str(S_a), Str(S_node_1)}

\* An edge carries an id and a label when it is a self-loop, none otherwise.
EdgeOf(source, target) ==
  IF source = target
  THEN Edge(Str(S_e1), source, target, Str(S_yes), Undef, Undef, Num(1))
  ELSE Edge(Undef, source, target, Undef, Undef, Undef, Undef)

EdgeObjects == {EdgeOf(s, t) : s \in Endpoints, t \in Endpoints}

SeqsUpTo(S, n) == UNION {[1..k -> S] : k \in 0..n}

HasOdd(nodes) == \E i \in 1..Len(nodes) : nodes[i] \in OddNodes

HasNull(edges) == \E k \in 1..Len(edges) : edges[k] = Null

\* The workflows a reply may carry: every list of core nodes with every
\* list of edge objects; the lists of nodes that hold an odd node, with
\* fewer edges; and the lists of edges that hold a null, with fewer nodes.
CoreNodeLists == SeqsUpTo(CoreNodes, MaxNodes)

CoreEdgeLists == SeqsUpTo(EdgeObjects, MaxEdges)

OddNodeLists == {l \in SeqsUpTo(OddNodes \cup {StartNode}, MaxNodes) : HasOdd(l)}

FewerEdgeLists == SeqsUpTo(EdgeObjects, MaxEdges - 1)

FewerNodeLists == SeqsUpTo(CoreNodes, MaxNodes - 1)

NullEdgeLists == {l \in SeqsUpTo(EdgeObjects \cup {Null}, MaxEdges) : HasNull(l)}

\* The reply of the generator: no text, text that is no JSON, JSON whose
\* nodes or edges is no array, or a workflow.
ReplyKinds == {"empty", "unparsable", "noArrays", "workflow"}

Prompts == {Undef, Num(7), Str(<<>>), Str(S_go)}

\* ------------------------------------------------------------------------
\* The handler as a state machine
\* ------------------------------------------------------------------------
VARIABLES
  pc,                   \* "start", "nodes", "edges" or "done"
  prompt,               \* the prompt of the request body
  apiKey,               \* whether ANTHROPIC_API_KEY is set
  generated,            \* the workflow as the generator wrote it
  workflowData,         \* the parsed workflow; its nodes are mutated in place
  currentNodeIdCounter,
  nodeIdMap,
  index,                \* the nodes the first map has visited
  processedNodes,
  validNodeIds,
  edgeIndex,            \* the edges the second map has visited
  mappedEdges,          \* the result of edges.map so far, nulls included
  response              \* the answer: status and body

vars == <<pc, prompt, apiKey, generated, workflowData, currentNodeIdCounter,
          nodeIdMap, index, processedNodes, validNodeIds, edgeIndex,
          mappedEdges, response>>

None == [status |-> 0]

NoWorkflow == [nodes |-> <<>>, edges |-> <<>>]

Init ==
  /\ pc = "start"
  /\ prompt \in Prompts
  /\ apiKey \in BOOLEAN
  /\ generated = NoWorkflow
  /\ workflowData = NoWorkflow
  /\ currentNodeIdCounter = CounterStart
  /\ nodeIdMap = EmptyMap
  /\ index = 0
  /\ processedNodes = <<>>
  /\ validNodeIds = {}
  /\ edgeIndex = 0
  /\ mappedEdges = <<>>
  /\ response = None

locals == <<generated, workflowData, currentNodeIdCounter, nodeIdMap, index,
            processedNodes, validNodeIds, edgeIndex, mappedEdges>>

Answer(status, body) ==
  /\ pc' = "done"
  /\ response' = [status |-> status, body |-> body]

\* if (!prompt || typeof prompt !== 'string') -> 400
RejectPrompt ==
  /\ pc = "start"
  /\ ~Truthy(prompt) \/ ~IsStr(prompt)
  /\ Answer(400, [error |-> "Prompt is required"])
  /\ UNCHANGED <<prompt, apiKey, locals>>

PromptOk == pc = "start" /\ Truthy(prompt) /\ IsStr(prompt)

\* if (!process.env.ANTHROPIC_API_KEY) -> 500
RejectMissingKey ==
  /\ PromptOk
  /\ ~apiKey
  /\ Answer(500, [error |-> "Anthropic API key not configured"])
  /\ UNCHANGED <<prompt, apiKey, locals>>

\* The reply has no text: throw new Error('Empty response from Anthropic.'),
\* caught by the handler's catch.
ReplyEmpty ==
  /\ PromptOk
  /\ apiKey
  /\ "empty" \in ReplyKinds
  /\ Answer(500, [error |-> "Failed to generate workflow",
                  details |-> "Empty response from Anthropic."])
  /\ UNCHANGED <<prompt, apiKey, locals>>

\* JSON.parse throws
ReplyUnparsable ==
  /\ PromptOk
  /\ apiKey
  /\ "unparsable" \in ReplyKinds
  /\ Answer(500, [error |-> "Failed to parse AI workflow JSON output."])
  /\ UNCHANGED <<prompt, apiKey, locals>>

\* !Array.isArray(workflowData.nodes) || !Array.isArray(workflowData.edges)
ReplyNoArrays ==
  /\ PromptOk
  /\ apiKey
  /\ "noArrays" \in ReplyKinds
  /\ Answer(500, [error |-> "Invalid workflow format: missing nodes or edges."])
  /\ UNCHANGED <<prompt, apiKey, locals>>

\* workflowData = JSON.parse(jsonString)
Parsed(nodes, edges) ==
  /\ generated' = [nodes |-> nodes, edges |-> edges]
  /\ workflowData' = [nodes |-> nodes, edges |-> edges]

\* The reply parses to a workflow: Step 4 begins.
ReplyWorkflow ==
  /\ PromptOk
  /\ apiKey
  /\ "workflow" \in ReplyKinds
  /\ \/ \E nodes \in CoreNodeLists, edges \in CoreEdgeLists : Parsed(nodes, edges)
     \/ \E nodes \in OddNodeLists, edges \in FewerEdgeLists : Parsed(nodes, edges)
     \/ \E nodes \in FewerNodeLists, edges \in NullEdgeLists : Parsed(nodes, edges)
  /\ currentNodeIdCounter' = CounterStart
  /\ nodeIdMap' = EmptyMap
  /\ pc' = "nodes"
  /\ UNCHANGED <<prompt, apiKey, index, processedNodes, validNodeIds,
                 edgeIndex, mappedEdges, response>>

\* One call of the callback of nodes.map
ProcessNode ==
  /\ pc = "nodes"
  /\ index < Len(workflowData.nodes)
  /\ LET r == NormalizeNode(currentNodeIdCounter, nodeIdMap,
                            workflowData.nodes[index + 1], index)
     IN /\ ~r.threw
        /\ currentNodeIdCounter' = r.counter
        /\ nodeIdMap' = r.map
        /\ workflowData' = [workflowData EXCEPT !.nodes[index + 1] = r.mutated]
        /\ processedNodes' = Append(processedNodes, r.out)
  /\ index' = index + 1
  /\ UNCHANGED <<pc, prompt, apiKey, generated, validNodeIds, edgeIndex,
                 mappedEdges, response>>

\* The callback throws a TypeError, caught by the handler's catch.
NodeThrows ==
  /\ pc = "nodes"
  /\ index < Len(workflowData.nodes)
  /\ NormalizeNode(currentNodeIdCounter, nodeIdMap,
                   workflowData.nodes[index + 1], index).threw
  /\ Answer(500, [error |-> "Failed to generate workflow",
                  details |-> "TypeError"])
  /\ UNCHANGED <<prompt, apiKey, locals>>

\* nodes.map is over: new Set(processedNodes.map(n => n.id))
CollectValidIds ==
  /\ pc = "nodes"
  /\ index = Len(workflowData.nodes)
  /\ validNodeIds' = ValidNodeIds(processedNodes)
  /\ pc' = "edges"
  /\ UNCHANGED <<prompt, apiKey, generated, workflowData, currentNodeIdCounter,
                 nodeIdMap, index, processedNodes, edgeIndex, mappedEdges,
                 response>>

\* One call of the callback of edges.map
ProcessEdge ==
  /\ pc = "edges"
  /\ edgeIndex < Len(workflowData.edges)
  /\ ~EdgeThrows(workflowData.edges[edgeIndex + 1])
  /\ mappedEdges' = Append(mappedEdges,
                           MapEdge(nodeIdMap, validNodeIds,
                                   workflowData.edges[edgeIndex + 1]))
  /\ edgeIndex' = edgeIndex + 1
  /\ UNCHANGED <<pc, prompt, apiKey, generated, workflowData,
                 currentNodeIdCounter, nodeIdMap, index, processedNodes,
                 validNodeIds, response>>

\* The callback throws a TypeError, caught by the handler's catch.
EdgeThrowsError ==
  /\ pc = "edges"
  /\ edgeIndex < Len(workflowData.edges)
  /\ EdgeThrows(workflowData.edges[edgeIndex + 1])
  /\ Answer(500, [error |-> "Failed to generate workflow",
                  details |-> "TypeError"])
  /\ UNCHANGED <<prompt, apiKey, locals>>

\* edges.map is over: filter the nulls and answer 200.
Respond ==
  /\ pc = "edges"
  /\ edgeIndex = Len(workflowData.edges)
  /\ Answer(200, [nodes |-> processedNodes, edges |-> FilterNull(mappedEdges)])
  /\ UNCHANGED <<prompt, apiKey, locals>>

Next ==
  \/ RejectPrompt
  \/ RejectMissingKey
  \/ ReplyEmpty
  \/ ReplyUnparsable
  \/ ReplyNoArrays
  \/ ReplyWorkflow
  \/ ProcessNode
  \/ NodeThrows
  \/ CollectValidIds
  \/ ProcessEdge
  \/ EdgeThrowsError
  \/ Respond

Spec == Init /\ [][Next]_vars

\* ------------------------------------------------------------------------
\* The response
\* ------------------------------------------------------------------------
Ok == pc = "done" /\ response.status = 200

Returned == response.body

\* The ids of a list of nodes
IdsOf(nodes) == {nodes[i].id : i \in 1..Len(nodes)}

\* The original id of a generator's node is one a node can be referred by
OriginalIds == {generated.nodes[i].id : i \in 1..Len(generated.nodes)}

\* C1: in every 200 response each returned edge has a source and a target
\* that are ids of returned nodes.
C1_EdgesReferenceReturnedNodes ==
  Ok => \A k \in 1..Len(Returned.edges) :
          /\ Returned.edges[k].source \in IdsOf(Returned.nodes)
          /\ Returned.edges[k].target \in IdsOf(Returned.nodes)

\* C1's case: a 200 response that returns an edge although the generator
\* also wrote an edge between a known and an unknown node, which is dropped.
C1_Witness ==
  /\ Ok
  /\ Len(Returned.edges) >= 1
  /\ \E k \in 1..Len(generated.edges) :
       /\ Truthy(generated.edges[k].source)
       /\ Truthy(generated.edges[k].target)
       /\ generated.edges[k].source \in OriginalIds
       /\ mappedEdges[k] = Null

\* C2 as claimed: the ids of the returned nodes are pairwise distinct.
C2_NodeIdsDistinct ==
  Ok => \A i, j \in 1..Len(Returned.nodes) :
          i # j => Returned.nodes[i].id # Returned.nodes[j].id

TypeCount(nodes, type) ==
  Cardinality({i \in 1..Len(nodes) : nodes[i].type = Str(type)})

\* C3 as claimed: a 200 response holds exactly one start node and at least
\* one end node.
C3_OneStartSomeEnd ==
  Ok => /\ TypeCount(Returned.nodes, S_start) = 1
        /\ TypeCount(Returned.nodes, S_end) >= 1

\* Step 4 applied to the body of the answer
Renormalized == NormalizeWorkflow(Returned)

\* C4: normalizing the returned nodes and edges again returns the same
\* nodes and the same edges.
C4_NormalizationIdempotent ==
  Ok => /\ ~Renormalized.threw
        /\ Renormalized.nodes = Returned.nodes
        /\ Renormalized.edges = Returned.edges

\* C4's case: the first pass renamed a node, filled in a missing position,
\* dropped an edge and kept an edge whose endpoint it remapped.
C4_Witness ==
  /\ Ok
  /\ \E i \in 1..Len(Returned.nodes) :
       /\ Returned.nodes[i].id # generated.nodes[i].id
       /\ Returned.nodes[i].position # generated.nodes[i].position
  /\ Len(Returned.edges) >= 1
  /\ Len(Returned.edges) < Len(generated.edges)
  /\ \E k \in 1..Len(generated.edges) :
       mappedEdges[k] # Null /\ mappedEdges[k].source # generated.edges[k].source

\* The generator's nodes have pairwise distinct non-empty ids
DistinctOriginalIds ==
  /\ \A i \in 1..Len(generated.nodes) :
       IsStr(generated.nodes[i].id) /\ Truthy(generated.nodes[i].id)
  /\ \A i, j \in 1..Len(generated.nodes) :
       i # j => generated.nodes[i].id # generated.nodes[j].id

\* The final id of the node the generator called id
FinalIdOf(id) ==
  Returned.nodes[CHOOSE i \in 1..Len(generated.nodes) : generated.nodes[i].id = id].id

\* The generator's k-th edge joins two of its nodes
JoinsNodes(k) ==
  /\ generated.edges[k].source \in OriginalIds
  /\ generated.edges[k].target \in OriginalIds

\* The endpoints expected of the edges among the first k that join nodes
RECURSIVE ExpectedEnds(_)
ExpectedEnds(k) ==
  IF k = 0 THEN <<>>
  ELSE IF JoinsNodes(k)
       THEN Append(ExpectedEnds(k - 1),
                   <<FinalIdOf(generated.edges[k].source),
                     FinalIdOf(generated.edges[k].target)>>)
       ELSE ExpectedEnds(k - 1)

ReturnedEnds ==
  [k \in 1..Len(Returned.edges) |->
     <<Returned.edges[k].source, Returned.edges[k].target>>]

\* a is b with some elements left out
RECURSIVE IsSubsequence(_, _)
IsSubsequence(a, b) ==
  IF a = <<>> THEN TRUE
  ELSE IF b = <<>> THEN FALSE
  ELSE IF Head(a) = Head(b) THEN IsSubsequence(Tail(a), Tail(b))
  ELSE IsSubsequence(a, Tail(b))

\* C5: with pairwise distinct non-empty node ids, every edge that joins two
\* of the generator's nodes is returned, in the same relative order, between
\* the final ids of those nodes.
C5_JoiningEdgesKept ==
  (Ok /\ DistinctOriginalIds) =>
     /\ IsSubsequence(ExpectedEnds(Len(generated.edges)), ReturnedEnds)
     /\ \A k \in 1..Len(generated.edges) :
          JoinsNodes(k) =>
            /\ mappedEdges[k] # Null
            /\ mappedEdges[k].source = FinalIdOf(generated.edges[k].source)
            /\ mappedEdges[k].target = FinalIdOf(generated.edges[k].target)

\* C5's case: two different edges that join nodes, one from a renamed node.
C5_Witness ==
  /\ Ok
  /\ DistinctOriginalIds
  /\ Len(generated.edges) = 2
  /\ JoinsNodes(1) /\ JoinsNodes(2)
  /\ generated.edges[1] # generated.edges[2]
  /\ FinalIdOf(generated.edges[1].source) # generated.edges[1].source
  /\ Len(Returned.edges) = 2

\* C6 as claimed: an edge whose source or target is not the original id of
\* any of the generator's nodes is not returned.
C6_UnknownEndpointSkipped ==
  Ok => \A k \in 1..Len(generated.edges) :
          (\/ generated.edges[k].source \notin OriginalIds
           \/ generated.edges[k].target \notin OriginalIds)
          => mappedEdges[k] = Null

\* The generator's k-th edge lacks a source or a target
LacksEndpoint(k) ==
  ~Truthy(generated.edges[k].source) \/ ~Truthy(generated.edges[k].target)

\* C7: an edge without source or target, or to an unknown node, does not
\* fail the request: the callback on an edge object goes on to the next
\* edge, and after the last edge the handler answers 200 with all nodes
\* and at most as many edges as the generator wrote.
C7_BadEdgeNeverFails ==
  [][pc = "edges" =>
       IF edgeIndex < Len(generated.edges)
       THEN generated.edges[edgeIndex + 1] # Null =>
              /\ pc' = "edges"
              /\ response' = None
              /\ edgeIndex' = edgeIndex + 1
       ELSE /\ pc' = "done"
            /\ response'.status = 200
            /\ Len(response'.body.nodes) = Len(generated.nodes)
            /\ Len(response'.body.edges) <= Len(generated.edges)]_vars

\* C7's case: a 200 response to a workflow with nodes, an edge without
\* source or target and an edge to an unknown node.
C7_Witness ==
  /\ Ok
  /\ Len(Returned.nodes) >= 1
  /\ \E k \in 1..Len(generated.edges) : LacksEndpoint(k)
  /\ \E k \in 1..Len(generated.edges) :
       ~LacksEndpoint(k) /\ mappedEdges[k] = Null
  /\ Len(Returned.edges) < Len(generated.edges)

\* C8 as claimed: while the nodes are processed, an id the handler
\* generates differs from the final id of every node before it.
C8_GeneratedIdsFresh ==
  \A i \in 1..Len(processedNodes) :
    NeedsNewId(generated.nodes[i].id) =>
      \A j \in 1..(i - 1) : processedNodes[j].id # processedNodes[i].id

\* The id is kept: a string that starts with 'node_'
Retained(id) == IsStr(id) /\ StartsWith(id.s, NodePrefix)

\* s is the decimal form of a number from 1 up
IsPositiveDecimal(s) ==
  /\ s # <<>>
  /\ \A i \in 1..Len(s) : IsDigit(s[i])
  /\ s[1] # "0"

\* C9: every returned id starts with 'node_'; an id that already does is
\* kept, every other node gets 'node_<k>' with k >= 1, and k counts from 1
\* while no id has been kept.
C9_IdsCarryNodePrefix ==
  Ok => \A i \in 1..Len(Returned.nodes) :
          LET original == generated.nodes[i].id
              id == Returned.nodes[i].id
          IN /\ IsStr(id)
             /\ StartsWith(id.s, NodePrefix)
             /\ Retained(original) => id = original
             /\ ~Retained(original) =>
                  IsPositiveDecimal(SubSeq(id.s, Len(NodePrefix) + 1, Len(id.s)))
             /\ (\A j \in 1..i : ~Retained(generated.nodes[j].id)) =>
                  id = Str(NodePrefix \o NumToString(<<i>>))

\* C9's case: a response that keeps the id of its first node and gives a
\* generated id to its second node, which had another id or none.
C9_Witness ==
  /\ Ok
  /\ Len(Returned.nodes) = 2
  /\ Retained(generated.nodes[1].id)
  /\ ~Retained(generated.nodes[2].id)
  /\ Returned.nodes[2].id # generated.nodes[2].id

\* The position is one the handler leaves alone
HasPosition(node) ==
  /\ Truthy(node.position)
  /\ node.position.x.t = "number"
  /\ node.position.y.t = "number"

\* C10: the returned nodes are the generator's nodes, one for one and in
\* order: the i-th keeps the type, the position and the data properties the
\* i-th node of the generator had, and its id unless one is generated.
C10_NodeListIntact ==
  Ok => /\ Len(Returned.nodes) = Len(generated.nodes)
        /\ \A i \in 1..Len(generated.nodes) :
             LET in == generated.nodes[i]
                 out == Returned.nodes[i]
             IN /\ Truthy(in.type) => out.type = in.type
                /\ HasPosition(in) => out.position = in.position
                /\ ~HasPosition(in) => out.position.x = Num(250 + (i - 1) * 300)
                /\ out.data.instructions = Get(in.data, "instructions")
                /\ out.data.name = Get(in.data, "name")
                /\ Retained(in.id) => out.id = in.id

\* C10's case: two nodes of different types, the first without position
\* and the second with a generated id, come back in the generator's order.
C10_Witness ==
  /\ Ok
  /\ Len(generated.nodes) = 2
  /\ Truthy(generated.nodes[1].type)
  /\ Truthy(generated.nodes[2].type)
  /\ generated.nodes[1].type # generated.nodes[2].type
  /\ ~HasPosition(generated.nodes[1])
  /\ ~Retained(generated.nodes[2].id)
  /\ Len(Returned.nodes) = 2

\* The fields of data the handler ensures, and the ones it only copies.
EnsuredFields == {"nodeType", "nodeName", "label"}

OtherFields == {"name", "instructions"}

\* C11: normalization preserves node data: in a 200 response every property
\* of a node's data other than nodeType, nodeName and label is the one the
\* generator wrote (absent when it wrote none), and a nodeType, nodeName or
\* label the generator supplied non-empty is returned as supplied.
C11_NodeDataPreserved ==
  Ok => \A i \in 1..Len(generated.nodes) :
          LET supplied == generated.nodes[i].data
              returned == Returned.nodes[i].data
          IN /\ \A f \in OtherFields : returned[f] = Get(supplied, f)
             /\ \A f \in EnsuredFields :
                  Truthy(Get(supplied, f)) => returned[f] = supplied[f]

\* C11's case: a node whose data supplies nodeType, nodeName, label and
\* another property, with a name that is not the default one, is returned
\* next to a node whose data had to be filled in.
C11_Witness ==
  /\ Ok
  /\ \E i \in 1..Len(generated.nodes) :
       LET supplied == generated.nodes[i].data
       IN /\ \A f \in EnsuredFields \cup {"instructions"} :
               Truthy(Get(supplied, f))
          /\ supplied.nodeName # DefaultNodeName(Returned.nodes[i].type)
          /\ supplied.label # supplied.nodeName
          /\ Returned.nodes[i].data = supplied
  /\ \E i \in 1..Len(generated.nodes) :
       /\ ~Truthy(Get(generated.nodes[i].data, "label"))
       /\ Truthy(Get(generated.nodes[i].data, "instructions"))
       /\ Truthy(Returned.nodes[i].data.label)

\* C12: in every node of a 200 response data.nodeType is the node's type, so
\* either field tells the kind of the node.
C12_NodeTypeMatchesType ==
  Ok => \A i \in 1..Len(Returned.nodes) :
          Returned.nodes[i].data.nodeType = Returned.nodes[i].type

====
